---- MODULE Spec2Model ----
(***************************************************************************)
(* slogx: a slog.Handler (LevelBasedHandler) that routes every record to   *)
(* one of two sinks by level, and the constructors New / InitDefault that  *)
(* build the two sinks from one base tint.Options.                         *)
(*                                                                         *)
(* The heap is modelled by three sequences: handlers (the sinks), routers  *)
(* (the LevelBasedHandler values) and loggers (the *slog.Logger values     *)
(* returned by New).  A pointer is an index into its sequence.             *)
(***************************************************************************)
EXTENDS Integers, Sequences, FiniteSets, TLC

VARIABLES
    handlers,   \* the sinks: configuration, decorations, records received
    routers,    \* the LevelBasedHandler values: [LowLevelHandler, ErrorHandler]
    loggers,    \* the loggers built by New: [handler, args]
    default,    \* slog's process-wide default logger (0: none of ours)
    log,        \* history of the Handle / Log calls made, in call order
    ret         \* what the last call returned

vars == <<handlers, routers, loggers, default, log, ret>>

(***************************************************************************)
(* Bounds of the model.                                                    *)
(***************************************************************************)
MaxCalls == 2
MaxRouters == 2
MaxLoggers == 2

(***************************************************************************)
(* slog levels and the values the model draws from.                        *)
(***************************************************************************)
LevelDebug == -4
LevelInfo == 0
LevelWarn == 4
LevelError == 8
Red == 9

Levels == {LevelDebug, LevelInfo, LevelWarn, LevelError, LevelError + 4}
MinLevels == {LevelDebug, LevelWarn, LevelError, LevelError + 4}

Nil == "nil"
Errors == {Nil, "EIO", "EPIPE"}

NilFn == "nil"
UserFns == {NilFn, "rewriteValue", "renameErrAway", "renameToError"}

Keys == {"err", "error", "k"}
MkAttr(k) == [Key |-> k, Value |-> "v", color |-> 0]
NoAttrs == <<>>

AttrLists == {<<"key", "count">>}
GroupNames == {"mygroup"}

(***************************************************************************)
(* Attribute rewriting.                                                    *)
(***************************************************************************)
\* tint.Attr(color, a): the same attribute, its value coloured.
TintAttr(color, a) == [a EXCEPT !.color = color]

\* The caller's ReplaceAttr functions the model draws from.
UserReplace(fn, a) ==
    CASE fn = "rewriteValue" -> [a EXCEPT !.Value = "rewritten"]
      [] fn = "renameErrAway" ->
            IF a.Key = "err" THEN [a EXCEPT !.Key = "cause"] ELSE a
      [] fn = "renameToError" ->
            IF a.Key = "k" THEN [a EXCEPT !.Key = "error"] ELSE a
      [] OTHER -> a

\* Variant: the key is tested before the caller's function runs.
ErrReplaceAttrKeyFirst(userReplace, a) ==
    LET a1 == IF userReplace # NilFn THEN UserReplace(userReplace, a) ELSE a
    IN  IF a.Key = "err" \/ a.Key = "error" THEN TintAttr(Red, a1) ELSE a1

\* The closure New installs as errOpts.ReplaceAttr.
ErrReplaceAttr(userReplace, a) ==
    LET a1 == IF userReplace # NilFn THEN UserReplace(userReplace, a) ELSE a
    IN  IF a1.Key = "err" \/ a1.Key = "error" THEN TintAttr(Red, a1) ELSE a1

\* A sink's ReplaceAttr field is [wrapped, user]: the caller's function, or
\* New's closure over it.
ApplyReplaceAttr(f, a) ==
    IF f.wrapped THEN ErrReplaceAttr(f.user, a)
    ELSE IF f.user # NilFn THEN UserReplace(f.user, a) ELSE a

(***************************************************************************)
(* The sinks (slog.Handler values held by a LevelBasedHandler).            *)
(***************************************************************************)
\* A recording sink that filters by a minimum level and keeps what it is
\* handed (levelFilterHandler; with the lowest level, stubHandler, which
\* is enabled for every level).
FilterSink(m) ==
    [minLevel |-> m, AddSource |-> FALSE, NoColor |-> FALSE, TimeFormat |-> "",
     ReplaceAttr |-> [wrapped |-> FALSE, user |-> NilFn],
     deco |-> <<>>, records |-> <<>>]

SinkEnabled(s, level) == level >= s.minLevel

\* The sink is handed record rec (with call id) and answers e.
SinkHandle(s, id, rec, e) ==
    [s EXCEPT !.records = Append(@,
        [id |-> id, level |-> rec.level,
         attrs |-> [i \in 1..Len(rec.attrs) |->
                        ApplyReplaceAttr(s.ReplaceAttr, rec.attrs[i])],
         source |-> s.AddSource, deco |-> s.deco, result |-> e])]

AttrsDeco(attrs) == [kind |-> "attrs", attrs |-> attrs, name |-> ""]
GroupDeco(name) == [kind |-> "group", attrs |-> <<>>, name |-> name]

\* Handler.WithAttrs / WithGroup of a sink: a new sink, decorated.
SinkWithAttrs(s, attrs) ==
    [s EXCEPT !.deco = Append(@, AttrsDeco(attrs)), !.records = <<>>]
SinkWithGroup(s, name) ==
    [s EXCEPT !.deco = Append(@, GroupDeco(name)), !.records = <<>>]

(***************************************************************************)
(* LevelBasedHandler.                                                      *)
(***************************************************************************)
Low(h) == routers[h].LowLevelHandler
High(h) == routers[h].ErrorHandler

\* Variant: Error itself is sent to the low sink.
EnabledRouteStrict(h, level) ==
    IF level > LevelError THEN High(h) ELSE Low(h)

\* The sink Enabled consults.
EnabledRoute(h, level) ==
    IF level >= LevelError THEN High(h) ELSE Low(h)

\* Variant: Enabled short-circuits to true.
EnabledResultTrue(h, level) == TRUE

\* What Enabled returns.
EnabledResult(h, level) == SinkEnabled(handlers[EnabledRoute(h, level)], level)

\* Variant: Error itself is sent to the low sink.
HandleRouteStrict(h, level) ==
    IF level > LevelError THEN High(h) ELSE Low(h)

\* The sink Handle delegates to.
HandleRoute(h, level) ==
    IF level >= LevelError THEN High(h) ELSE Low(h)

\* Variant: the sink's error is swallowed.
HandleResultSwallow(e) == Nil

\* What Handle returns when the sink it delegated to answered e.
HandleResult(e) == e

Ret(op, h, level, sink, val, err, logger, panic) ==
    [op |-> op, h |-> h, level |-> level, sink |-> sink, val |-> val,
     err |-> err, logger |-> logger, panic |-> panic]

NoRet == Ret("none", 0, 0, 0, FALSE, Nil, 0, FALSE)

Enabled(h, level) ==
    /\ ret' = Ret("Enabled", h, level, EnabledRoute(h, level),
                  EnabledResult(h, level), Nil, 0, FALSE)
    /\ UNCHANGED <<handlers, routers, loggers, default, log>>

\* handlers after h.Handle(rec), the selected sink answering e.
HandleHandlers(h, rec, e) ==
    LET t == HandleRoute(h, rec.level)
    IN  [handlers EXCEPT ![t] = SinkHandle(@, Len(log) + 1, rec, e)]

Handle(h, rec, e) ==
    /\ handlers' = HandleHandlers(h, rec, e)
    /\ log' = Append(log, [h |-> h, level |-> rec.level, attrs |-> rec.attrs,
                           via |-> "Handle"])
    /\ ret' = Ret("Handle", h, rec.level, HandleRoute(h, rec.level), FALSE,
                  HandleResult(e), 0, FALSE)
    /\ UNCHANGED <<routers, loggers, default>>

\* Variant: the high sink is carried over without the attributes.
WithAttrsErrorUndecorated(h, attrs) == handlers[High(h)]

\* h.LowLevelHandler.WithAttrs(attrs) and h.ErrorHandler.WithAttrs(attrs).
WithAttrsLow(h, attrs) == SinkWithAttrs(handlers[Low(h)], attrs)
WithAttrsError(h, attrs) == SinkWithAttrs(handlers[High(h)], attrs)

\* h.LowLevelHandler.WithGroup(name) and h.ErrorHandler.WithGroup(name).
WithGroupLow(h, name) == SinkWithGroup(handlers[Low(h)], name)
WithGroupError(h, name) == SinkWithGroup(handlers[High(h)], name)

\* Variant: the receiver's sinks are overwritten and the receiver returned.
DeriveInPlace(h, low, high) ==
    /\ handlers' = [handlers EXCEPT ![Low(h)] = low, ![High(h)] = high]
    /\ routers' = Append(routers, routers[h])

\* &LevelBasedHandler{LowLevelHandler: low, ErrorHandler: high}: two new
\* sinks and a new router are allocated; nothing that exists is written.
Derive(h, low, high) ==
    /\ handlers' = handlers \o <<low, high>>
    /\ routers' = Append(routers, [LowLevelHandler |-> Len(handlers) + 1,
                                   ErrorHandler |-> Len(handlers) + 2])

WithAttrs(h, attrs) ==
    /\ Derive(h, WithAttrsLow(h, attrs), WithAttrsError(h, attrs))
    /\ ret' = Ret("WithAttrs", Len(routers) + 1, 0, 0, FALSE, Nil, 0, FALSE)
    /\ UNCHANGED <<loggers, default, log>>

WithGroup(h, name) ==
    /\ Derive(h, WithGroupLow(h, name), WithGroupError(h, name))
    /\ ret' = Ret("WithGroup", Len(routers) + 1, 0, 0, FALSE, Nil, 0, FALSE)
    /\ UNCHANGED <<loggers, default, log>>

(***************************************************************************)
(* Specification Spec: a router over two recording sinks, called directly  *)
(* (Handle) and decorated (WithAttrs, WithGroup).                          *)
(***************************************************************************)
Init ==
    /\ handlers = <<FilterSink(LevelDebug), FilterSink(LevelDebug)>>
    /\ routers = <<[LowLevelHandler |-> 1, ErrorHandler |-> 2]>>
    /\ loggers = <<>>
    /\ default = 0
    /\ log = <<>>
    /\ ret = NoRet

Routers == 1..Len(routers)

DoHandle ==
    \E h \in Routers, level \in Levels, e \in Errors :
        /\ Len(log) < MaxCalls
        /\ Handle(h, [level |-> level, attrs |-> NoAttrs], e)

DoWithAttrs ==
    \E h \in Routers, attrs \in AttrLists :
        /\ Len(routers) < MaxRouters
        /\ WithAttrs(h, attrs)

DoWithGroup ==
    \E h \in Routers, name \in GroupNames :
        /\ Len(routers) < MaxRouters
        /\ WithGroup(h, name)

Next == DoHandle \/ DoWithAttrs \/ DoWithGroup

Spec == Init /\ [][Next]_vars
(***************************************************************************)
(* Specification SpecLogger: a slog.Logger over a router whose two sinks   *)
(* filter by their own minimum levels.  Logger.Log asks Enabled and hands  *)
(* the record to Handle only when it answers true; the error Handle        *)
(* returns is dropped.                                                     *)
(***************************************************************************)
Log(h, rec, e) ==
    LET on == EnabledResult(h, rec.level)
    IN  /\ handlers' = IF on THEN HandleHandlers(h, rec, e) ELSE handlers
        /\ log' = Append(log, [h |-> h, level |-> rec.level,
                               attrs |-> rec.attrs, via |-> "Log"])
        /\ ret' = Ret("Log", h, rec.level, EnabledRoute(h, rec.level), on,
                      Nil, 0, FALSE)
        /\ UNCHANGED <<routers, loggers, default>>

InitLogger ==
    /\ \E m1, m2 \in MinLevels : handlers = <<FilterSink(m1), FilterSink(m2)>>
    /\ routers = <<[LowLevelHandler |-> 1, ErrorHandler |-> 2]>>
    /\ loggers = <<>>
    /\ default = 0
    /\ log = <<>>
    /\ ret = NoRet

DoEnabled ==
    \E h \in Routers, level \in Levels : Enabled(h, level)

DoLog ==
    \E h \in Routers, level \in Levels, e \in Errors :
        /\ Len(log) < MaxCalls
        /\ Log(h, [level |-> level, attrs |-> <<MkAttr("k")>>], e)

NextLogger == DoEnabled \/ DoLog

SpecLogger == InitLogger /\ [][NextLogger]_vars

(***************************************************************************)
(* New and InitDefault.  A *tint.Options argument is [nil, val]; the       *)
(* Options fields are Level (<<>>: not set), AddSource, NoColor,           *)
(* TimeFormat and ReplaceAttr.                                             *)
(***************************************************************************)
ZeroOptions ==
    [Level |-> <<>>, AddSource |-> FALSE, NoColor |-> FALSE, TimeFormat |-> "",
     ReplaceAttr |-> [wrapped |-> FALSE, user |-> NilFn]]

NilPtr == [nil |-> TRUE, val |-> ZeroOptions]
Ptr(o) == [nil |-> FALSE, val |-> o]

\* *p: dereferencing a nil pointer panics.
Deref(p) ==
    IF p.nil THEN [panic |-> TRUE, o |-> ZeroOptions]
    ELSE [panic |-> FALSE, o |-> p.val]

\* Variant: the first argument is dereferenced without the nil test.
BaseOptsNoNilCheck(opts) ==
    IF Len(opts) > 0 THEN Deref(opts[1])
    ELSE [panic |-> FALSE, o |-> ZeroOptions]

\* baseOpts: the zero value, or a copy of the first argument when it is
\* given and not nil.
BaseOpts(opts) ==
    IF Len(opts) > 0 /\ ~opts[1].nil THEN Deref(opts[1])
    ELSE [panic |-> FALSE, o |-> ZeroOptions]

\* Variant: AddSource is left as the caller set it.
LowOptsKeepSource(baseOpts) == baseOpts

\* lowOpts: the base options with AddSource off.
LowOpts(baseOpts) == [baseOpts EXCEPT !.AddSource = FALSE]

\* errOpts: the base options with AddSource on and ReplaceAttr wrapped.
ErrOpts(baseOpts) ==
    [baseOpts EXCEPT !.AddSource = TRUE,
                     !.ReplaceAttr = [wrapped |-> TRUE,
                                      user |-> baseOpts.ReplaceAttr.user]]

\* tint.NewHandler(os.Stderr, &o): a sink configured by o; a Level that is
\* not set means Info.
TintNewHandler(o) ==
    [minLevel |-> IF o.Level = <<>> THEN LevelInfo ELSE o.Level[1],
     AddSource |-> o.AddSource, NoColor |-> o.NoColor,
     TimeFormat |-> o.TimeFormat, ReplaceAttr |-> o.ReplaceAttr,
     deco |-> <<>>, records |-> <<>>]

\* The construction New performs; op names the entry point called.
Construct(op, opts) ==
    LET b == BaseOpts(opts)
    IN  IF b.panic
        THEN /\ ret' = Ret(op, 0, 0, 0, FALSE, Nil, 0, TRUE)
             /\ UNCHANGED <<handlers, routers, loggers, log>>
        ELSE /\ handlers' = handlers \o <<TintNewHandler(LowOpts(b.o)),
                                          TintNewHandler(ErrOpts(b.o))>>
             /\ routers' = Append(routers,
                                  [LowLevelHandler |-> Len(handlers) + 1,
                                   ErrorHandler |-> Len(handlers) + 2])
             /\ loggers' = Append(loggers, [handler |-> Len(routers) + 1,
                                            args |-> opts, op |-> op])
             /\ ret' = Ret(op, Len(routers) + 1, 0, 0, FALSE, Nil,
                           Len(loggers) + 1, FALSE)
             /\ UNCHANGED log

\* Variant: New installs its logger as the default.
NewDefaultInstalls(logger) == logger

\* slog's default after New returned logger: New does not touch it.
NewDefault(logger) == default

\* Variant: InitDefault forgets slog.SetDefault.
InitDefaultKeeps(logger) == default

\* slog's default after InitDefault built logger: slog.SetDefault(logger).
InitDefaultDefault(logger) == logger

New(opts) ==
    /\ Construct("New", opts)
    /\ default' = IF ret'.panic THEN default ELSE NewDefault(ret'.logger)

InitDefault(opts) ==
    /\ Construct("InitDefault", opts)
    /\ default' = IF ret'.panic THEN default
                  ELSE InitDefaultDefault(ret'.logger)

(***************************************************************************)
(* Specification SpecNew: any sequence of New and InitDefault calls.       *)
(***************************************************************************)
ConfigOptions ==
    [Level : {<<>>, <<LevelWarn>>}, AddSource : BOOLEAN, NoColor : BOOLEAN,
     TimeFormat : {"", "15:04:05"},
     ReplaceAttr : [wrapped : {FALSE}, user : {NilFn, "rewriteValue"}]]

ConfigArgs == {<<>>, <<NilPtr>>} \cup {<<Ptr(o)>> : o \in ConfigOptions}

InitNew ==
    /\ handlers = <<>>
    /\ routers = <<>>
    /\ loggers = <<>>
    /\ default = 0
    /\ log = <<>>
    /\ ret = NoRet

DoNew ==
    \E opts \in ConfigArgs :
        /\ Len(loggers) < MaxLoggers
        /\ New(opts)

DoInitDefault ==
    \E opts \in ConfigArgs :
        /\ Len(loggers) < MaxLoggers
        /\ InitDefault(opts)

NextNew == DoNew \/ DoInitDefault

SpecNew == InitNew /\ [][NextNew]_vars

(***************************************************************************)
(* Specification SpecEmit: one logger built by New, then records logged    *)
(* through it with one attribute each.                                     *)
(***************************************************************************)
EmitOptions ==
    [Level : {<<>>, <<LevelDebug>>, <<LevelWarn>>}, AddSource : BOOLEAN,
     NoColor : {FALSE}, TimeFormat : {""},
     ReplaceAttr : [wrapped : {FALSE}, user : UserFns]]

EmitArgs == {<<>>, <<NilPtr>>} \cup {<<Ptr(o)>> : o \in EmitOptions}

\* What a sink's write to os.Stderr answers; the Logger drops it.
WriteErrors == {Nil, "EIO"}

DoNewFirst ==
    \E opts \in EmitArgs :
        /\ loggers = <<>>
        /\ New(opts)

DoEmit ==
    \E i \in 1..Len(loggers), level \in Levels, key \in Keys,
       e \in WriteErrors :
        /\ Len(log) < MaxCalls
        /\ Log(loggers[i].handler, [level |-> level, attrs |-> <<MkAttr(key)>>], e)

NextEmit == DoNewFirst \/ DoEmit

SpecEmit == InitNew /\ [][NextEmit]_vars

(***************************************************************************)
(* Properties of Spec.                                                     *)
(***************************************************************************)
Sinks == 1..Len(handlers)

\* How many times sink s was handed the record of call k.
Delivered(s, k) ==
    Cardinality({i \in 1..Len(handlers[s].records) :
                    handlers[s].records[i].id = k})

\* Each sink holds its records in the order of the calls that made them.
InCallOrder(s) ==
    \A i, j \in 1..Len(handlers[s].records) :
        i < j => handlers[s].records[i].id < handlers[s].records[j].id

\* C1: every record handed to Handle is delivered exactly once, to the
\* ErrorHandler of the router it was handed to when its level is >= Error
\* (levels above Error included) and to its LowLevelHandler otherwise, never
\* to another sink, and every sink holds its records in call order.
C1_RoutesByLevel ==
    /\ \A k \in 1..Len(log) :
          LET c == log[k]
              want == IF c.level >= LevelError
                      THEN routers[c.h].ErrorHandler
                      ELSE routers[c.h].LowLevelHandler
          IN  \A s \in Sinks :
                 /\ Delivered(s, k) = (IF s = want THEN 1 ELSE 0)
                 /\ \A i \in 1..Len(handlers[s].records) :
                        handlers[s].records[i].id = k
                            => handlers[s].records[i].level = c.level
    /\ \A s \in Sinks : InCallOrder(s)

\* Two calls were made on one router, one above Error and one below, and
\* each sink of that router holds one record.
C1_Witness ==
    \E k1, k2 \in 1..Len(log) :
        /\ log[k1].h = log[k2].h
        /\ log[k1].level = LevelError + 4
        /\ log[k2].level = LevelWarn
        /\ Len(handlers[routers[log[k1].h].ErrorHandler].records) = 1
        /\ Len(handlers[routers[log[k1].h].LowLevelHandler].records) = 1

\* C3: WithAttrs and WithGroup return a new router and write nothing that
\* exists: every router keeps its two sinks, every sink keeps its
\* configuration and decorations, and a sink's records change only by a
\* Handle call on a router that holds it.
C3_DerivationLeavesReceiver ==
    [][/\ \A r \in 1..Len(routers) :
             /\ r <= Len(routers')
             /\ routers'[r] = routers[r]
       /\ \A s \in 1..Len(handlers) :
             /\ s <= Len(handlers')
             /\ [handlers'[s] EXCEPT !.records = <<>>]
                    = [handlers[s] EXCEPT !.records = <<>>]
             /\ handlers'[s].records # handlers[s].records
                    => /\ Len(log') = Len(log) + 1
                       /\ s \in {routers[log'[Len(log')].h].LowLevelHandler,
                                 routers[log'[Len(log')].h].ErrorHandler}
       /\ ret'.op \in {"WithAttrs", "WithGroup"}
             => /\ Len(routers') = Len(routers) + 1
                /\ ret'.h = Len(routers')
                /\ \A s \in 1..Len(handlers) : handlers'[s] = handlers[s]
      ]_vars

\* A derived router exists and was used, and so was the original.
C3_Witness ==
    /\ Len(routers) >= 2
    /\ \E k1, k2 \in 1..Len(log) : log[k1].h = 1 /\ log[k2].h >= 2

\* C7: Handle returns exactly the error the selected sink answered; that
\* sink was invoked once for the call and no other sink was.
C7_ErrorPropagated ==
    ret.op = "Handle" =>
        LET k == Len(log)
            recs == handlers[ret.sink].records
        IN  /\ Len(recs) > 0
            /\ recs[Len(recs)].id = k
            /\ ret.err = recs[Len(recs)].result
            /\ (ret.err = Nil) = (recs[Len(recs)].result = Nil)
            /\ \A s \in Sinks : Delivered(s, k) = (IF s = ret.sink THEN 1 ELSE 0)

\* Handle returned an error of the high sink after an earlier call on the
\* same sink that succeeded.
C7_Witness ==
    /\ ret.op = "Handle"
    /\ ret.err = "EPIPE"
    /\ Len(handlers[ret.sink].records) = 2
    /\ handlers[ret.sink].records[1].result = Nil

C2_EnabledAgreesWithHandle ==
    ret.op = "Enabled" =>
        LET want == IF ret.level >= LevelError
                    THEN routers[ret.h].ErrorHandler
                    ELSE routers[ret.h].LowLevelHandler
        IN  /\ ret.val = (ret.level >= handlers[want].minLevel)
            /\ ret.sink = HandleRoute(ret.h, ret.level)

\* Enabled answered false although the sink it did not consult answers
\* true for that level.
C2_Witness ==
    /\ ret.op = "Enabled"
    /\ ret.val = FALSE
    /\ ret.level >= LevelError
    /\ ret.level >= handlers[routers[ret.h].LowLevelHandler].minLevel

SameFilter(h) ==
    handlers[routers[h].LowLevelHandler].minLevel
        = handlers[routers[h].ErrorHandler].minLevel

\* C4: when both sinks carry the same minimum level m, a record logged at
\* level l reaches a sink iff l >= m, and then only the low sink when
\* l < Error and only the high sink when l >= Error.
C4_ThresholdThenRoute ==
    \A k \in 1..Len(log) :
        (log[k].via = "Log" /\ SameFilter(log[k].h)) =>
            LET h == log[k].h
                l == log[k].level
                m == handlers[routers[h].LowLevelHandler].minLevel
            IN  /\ Delivered(routers[h].LowLevelHandler, k)
                       = (IF l >= m /\ l < LevelError THEN 1 ELSE 0)
                /\ Delivered(routers[h].ErrorHandler, k)
                       = (IF l >= m /\ l >= LevelError THEN 1 ELSE 0)

\* m = Warn: an Info record was dropped and a Warn record reached the low
\* sink alone.
C4_Witness ==
    /\ SameFilter(1)
    /\ handlers[1].minLevel = LevelWarn
    /\ Len(log) = 2
    /\ log[1].level = LevelInfo
    /\ log[2].level = LevelWarn
    /\ Len(handlers[1].records) = 1
    /\ Len(handlers[2].records) = 0
(***************************************************************************)
(* Properties of SpecNew and SpecEmit.                                     *)
(***************************************************************************)
\* The base configuration the arguments of a New call stand for.
ArgBase(args) ==
    IF args = <<>> THEN ZeroOptions
    ELSE IF args[1].nil THEN ZeroOptions ELSE args[1].val

LowOf(i) == handlers[routers[loggers[i].handler].LowLevelHandler]
HighOf(i) == handlers[routers[loggers[i].handler].ErrorHandler]

\* The logger whose router is h.
LoggerOf(h) == CHOOSE i \in 1..Len(loggers) : loggers[i].handler = h

\* C5: the high sink of a logger built with rewrite function userFn holds
\* every attribute passed through userFn first (when present) and then
\* coloured red iff the key userFn returned is "err" or "error"; the low
\* sink holds it passed through userFn and not coloured.
C5_UserFirstThenRecolor ==
    \A k \in 1..Len(log) :
        LET i == LoggerOf(log[k].h)
            u == ArgBase(loggers[i].args).ReplaceAttr.user
            a == log[k].attrs[1]
            a1 == IF u = NilFn THEN a ELSE UserReplace(u, a)
            red == a1.Key \in {"err", "error"}
        IN  /\ \A j \in 1..Len(HighOf(i).records) :
                   HighOf(i).records[j].id = k =>
                       HighOf(i).records[j].attrs
                           = <<[Key |-> a1.Key, Value |-> a1.Value,
                                color |-> IF red THEN Red ELSE 0]>>
            /\ \A j \in 1..Len(LowOf(i).records) :
                   LowOf(i).records[j].id = k =>
                       LowOf(i).records[j].attrs
                           = <<[Key |-> a1.Key, Value |-> a1.Value,
                                color |-> 0]>>

\* With a userFn that renames "err" away, an Error record keyed "err" is in
\* the high sink renamed and not coloured, and an Info record keyed "err"
\* is in the low sink.
C5_Witness ==
    /\ Len(loggers) = 1
    /\ ArgBase(loggers[1].args).ReplaceAttr.user = "renameErrAway"
    /\ Len(log) = 2
    /\ log[1].level = LevelError /\ log[1].attrs[1].Key = "err"
    /\ log[2].level = LevelInfo /\ log[2].attrs[1].Key = "err"
    /\ Len(HighOf(1).records) = 1
    /\ HighOf(1).records[1].attrs[1].Key = "cause"
    /\ Len(LowOf(1).records) = 1

\* C6: for every base configuration, the low sink is built with AddSource
\* off and the high sink with AddSource on; minimum level, time format and
\* colour switch are those of the base configuration in both; the low
\* sink's rewrite function is the caller's, unchanged.
C6_SourceForcedRestCopied ==
    \A i \in 1..Len(loggers) :
        LET b == ArgBase(loggers[i].args)
            lvl == IF b.Level = <<>> THEN LevelInfo ELSE b.Level[1]
        IN  /\ LowOf(i).AddSource = FALSE
            /\ HighOf(i).AddSource = TRUE
            /\ LowOf(i).minLevel = lvl /\ HighOf(i).minLevel = lvl
            /\ LowOf(i).NoColor = b.NoColor /\ HighOf(i).NoColor = b.NoColor
            /\ LowOf(i).TimeFormat = b.TimeFormat
            /\ HighOf(i).TimeFormat = b.TimeFormat
            /\ LowOf(i).ReplaceAttr = b.ReplaceAttr

\* A logger was built from a base configuration that asks for AddSource,
\* and another from one that does not.
C6_Witness ==
    \E i, j \in 1..Len(loggers) :
        /\ ArgBase(loggers[i].args).AddSource = TRUE
        /\ ArgBase(loggers[i].args).NoColor = TRUE
        /\ ArgBase(loggers[i].args).Level = <<LevelWarn>>
        /\ ArgBase(loggers[j].args).AddSource = FALSE
        /\ ArgBase(loggers[j].args).TimeFormat = "15:04:05"

\* The loggers InitDefault built, by index.
Installed == {i \in 1..Len(loggers) : loggers[i].op = "InitDefault"}

\* C8: the process-wide default is the logger the most recent InitDefault
\* call built (none of ours before the first such call), InitDefault
\* returns the logger it installed, and New leaves the default alone.
C8_DefaultIsLastInitDefault ==
    /\ default = (IF Installed = {} THEN 0
                  ELSE CHOOSE i \in Installed : \A j \in Installed : j <= i)
    /\ ret.op = "InitDefault" => ret.logger = default

\* InitDefault was called twice and New after it: the default is the
\* second InitDefault's logger.
C8_Witness ==
    /\ Len(loggers) >= 2
    /\ loggers[1].op = "InitDefault"
    /\ loggers[2].op = "InitDefault"
    /\ default = 2

\* The loggers built from no configuration or a nil one.
DefaultBuilt(i) == loggers[i].args = <<>> \/ loggers[i].args = <<NilPtr>>

StandardLevels == {LevelDebug, LevelInfo, LevelWarn, LevelError}

\* C9 as stated: a logger built from no or a nil configuration delivers
\* every Debug, Info and Warn record to its low sink and every Error
\* record to its high sink.
C9_EveryLevelDelivered ==
    \A k \in 1..Len(log) :
        LET i == LoggerOf(log[k].h)
            l == log[k].level
        IN  (DefaultBuilt(i) /\ l \in StandardLevels) =>
                /\ Delivered(routers[log[k].h].LowLevelHandler, k)
                       = (IF l < LevelError THEN 1 ELSE 0)
                /\ Delivered(routers[log[k].h].ErrorHandler, k)
                       = (IF l >= LevelError THEN 1 ELSE 0)

\* C9, amended: New with no or a nil configuration does not panic and
\* returns a logger whose sinks are built from the zero configuration;
\* logging through it never fails; Debug, Info and Warn consult the low
\* sink and Error the high sink; Info and Warn are delivered to the low
\* sink once, Error to the high sink once, and Debug to neither, the
\* minimum level of the zero configuration being Info.
C9_DefaultLoggerUsable ==
    /\ ret.op = "New" => (~ret.panic /\ ret.logger >= 1)
    /\ \A i \in 1..Len(loggers) :
          DefaultBuilt(i) =>
              /\ LowOf(i).minLevel = LevelInfo
              /\ HighOf(i).minLevel = LevelInfo
              /\ LowOf(i).ReplaceAttr.user = NilFn
              /\ HighOf(i).ReplaceAttr.user = NilFn
    /\ ret.op = "Log" =>
          (/\ ret.err = Nil
           /\ ~ret.panic
           /\ ret.sink = (IF ret.level >= LevelError
                          THEN routers[ret.h].ErrorHandler
                          ELSE routers[ret.h].LowLevelHandler))
    /\ \A k \in 1..Len(log) :
          LET i == LoggerOf(log[k].h)
              l == log[k].level
          IN  (DefaultBuilt(i) /\ l \in StandardLevels) =>
                  /\ Delivered(routers[log[k].h].LowLevelHandler, k)
                         = (IF l >= LevelInfo /\ l < LevelError THEN 1 ELSE 0)
                  /\ Delivered(routers[log[k].h].ErrorHandler, k)
                         = (IF l >= LevelError THEN 1 ELSE 0)

\* New(nil) built a logger; a Debug record logged through it was dropped
\* and an Info record logged after it is alone in its low sink.
C9_Witness ==
    /\ Len(loggers) = 1
    /\ loggers[1].args = <<NilPtr>>
    /\ Len(log) = 2
    /\ log[1].level = LevelDebug
    /\ log[2].level = LevelInfo
    /\ Len(LowOf(1).records) = 1
    /\ LowOf(1).records[1].id = 2
    /\ Len(HighOf(1).records) = 0

====
